---- MODULE Spec2Model ----
(***************************************************************************)
(* Habit-tracking backend (express + drizzle + PostgreSQL).                *)
(*                                                                         *)
(* The model covers the habit controller (createNewHabit, getHabitById,    *)
(* updateHabit, deleteHabit), the row aggregation it shares with the other *)
(* habit reads, and the part of the store these handlers touch: the habits *)
(* table, the habit_tags association table and the tags table.             *)
(*                                                                         *)
(* Store semantics.  The pool is opened without options, so every          *)
(* statement runs under PostgreSQL's default READ COMMITTED level:         *)
(*   - a statement sees the rows committed when it starts, plus the        *)
(*     writes of its own transaction;                                      *)
(*   - UPDATE / DELETE lock the rows they change until the transaction     *)
(*     ends; a statement that meets a row locked by another transaction    *)
(*     waits, then skips the row if it was deleted and takes it otherwise; *)
(*   - rows inserted by a transaction become visible at its COMMIT and     *)
(*     vanish at its ROLLBACK.                                             *)
(* habit_tags is kept as a heap in insertion order; each row carries the   *)
(* inserting transaction (xmin), the deleting transaction (xmax) and the   *)
(* transactions waiting for its lock (want).  A sequential scan returns    *)
(* the heap in this order.                                                 *)
(***************************************************************************)
EXTENDS Integers, Sequences, FiniteSets, TLC

\* ------------------------------------------------------------------ bounds
MaxRequests == 2      \* requests accepted in one run (also the clock range)
MaxHabits == 2        \* habit rows the store may hold
MaxRows == 3          \* longest join-row input of an aggregation run

\* ------------------------------------------------------------- value space
Null == "null"            \* SQL NULL in a uuid column
NullTs == 0               \* SQL NULL in a timestamp column (clock starts at 1)
NullId == 0               \* the id of an all-NULL joined projection
NoProc == "none"          \* no transaction
Undefined == <<>>         \* JS undefined (a present value v is <<v>>)

Users == {"u1", "u2"}
GhostUser == "u0"         \* a verified token whose user row is gone
Procs == {"p1", "p2"}     \* requests that can be in flight together
SlotNo == [p \in Procs |-> IF p = "p1" THEN 1 ELSE 2]
NoSuchHabit == 0          \* a well-formed uuid that matches no habit row
NoSuchTag == 0            \* a well-formed uuid that matches no tag row

VARIABLES
  habits,      \* table habits: sequence of rows, id = position
  habitTags,   \* table habit_tags: heap of rows in insertion order
  tags,        \* table tags: sequence of rows, id = position
  rowLock,     \* habit id -> transaction holding the row lock of an UPDATE
  clock,       \* logical time: one tick per accepted request
  pc,          \* per request slot: position inside its handler
  req,         \* per request slot: the request being (or last) served
  resp,        \* per request slot: the last response sent
  entries,     \* table entries: sequence of rows in insertion order
  aggRows,     \* aggregation run: the join rows being folded
  aggIdx,      \* aggregation run: rows consumed so far
  aggMap,      \* aggregation run: the insertion-ordered habitsMap
  users,       \* table users: sequence of rows in insertion order
  headers,     \* per request slot: the Authorization header of its request
  window,      \* rate limiter: identifier -> requests counted in the window
  err          \* errorHandler run: the error passed to next(error)

vars == <<habits, habitTags, tags, rowLock, clock, pc, req, resp, entries,
          aggRows, aggIdx, aggMap, users, headers, window, err>>
dbVars == <<habits, habitTags, tags, rowLock>>
aggVars == <<aggRows, aggIdx, aggMap>>
\* what the controllers of habits and tags never touch
appVars == <<users, headers, window, err>>
\* what the habit handlers with tags never touch
restVars == <<entries, aggRows, aggIdx, aggMap, appVars>>

\* ---------------------------------------------------------------- helpers
Range(s) == {s[i] : i \in 1..Len(s)}

RECURSIVE Flatten(_)
Flatten(ss) == IF ss = <<>> THEN <<>> ELSE Head(ss) \o Flatten(Tail(ss))

EmptyBody == [k \in {} |-> 0]

\* {...a, ...b}
Spread(a, b) ==
  [k \in DOMAIN a \cup DOMAIN b |-> IF k \in DOMAIN b THEN b[k] ELSE a[k]]

\* const { tagIds, ...updates } = req.body
RestOf(body) == [k \in DOMAIN body \ {"tagIds"} |-> body[k]]
TagIdsGiven(body) == "tagIds" \in DOMAIN body
TagIdsOf(body) == IF TagIdsGiven(body) THEN body.tagIds ELSE <<>>

\* the tagIds arrays requests carry: empty, one tag, two tags in an order
\* that is not the id order, the same tag twice, an id that references no tag
TagIdArrays == {<<>>, <<1>>, <<2, 1>>, <<1, 1>>, <<3>>}

\* row as the driver returns it (without the store's bookkeeping columns)
HabitTagRow(r) == [habitId |-> r.habitId, tagId |-> r.tagId,
                   createdAt |-> r.createdAt, deletedAt |-> r.deletedAt]

\* rows a statement outside any transaction sees: the committed ones
Committed(r) == r.xmin = NoProc
VisibleTags == SelectSeq(habitTags, Committed)

\* ------------------------------------------------------------ aggregation
\* habitsMap is a JS Map: entries in insertion order, one per key.
MapHas(m, k) == \E i \in 1..Len(m) : m[i].key = k
MapGet(m, k) ==
  IF MapHas(m, k) THEN <<(CHOOSE e \in Range(m) : e.key = k).value>>
  ELSE Undefined
MapValues(m) == [i \in 1..Len(m) |-> m[i].value]

\* faulty variant of MapSetNew: the has() test dropped, every row sets an entry
MapSetNew_NoHasTest(m, row) ==
  Append(m, [key |-> row.habits.id,
             value |-> Spread(row.habits, [tags |-> <<>>])])

\* if (!habitsMap.has(id)) habitsMap.set(id, {...row.habits, tags: []})
MapSetNew(m, row) ==
  IF MapHas(m, row.habits.id) THEN m
  ELSE Append(m, [key |-> row.habits.id,
                  value |-> Spread(row.habits, [tags |-> <<>>])])

\* if (row.tags?.id) habitsMap.get(id).tags.push({...row.tags})
MapPushTag(m, row) ==
  IF row.tags.id # NullId
    THEN [i \in 1..Len(m) |->
            IF m[i].key = row.habits.id
              THEN [m[i] EXCEPT !.value.tags = Append(@, row.tags)]
              ELSE m[i]]
    ELSE m

\* one pass of the forEach callback over a join row
AggStep(m, row) == MapPushTag(MapSetNew(m, row), row)

RECURSIVE AggFold(_, _)
AggFold(m, rows) ==
  IF rows = <<>> THEN m ELSE AggFold(AggStep(m, Head(rows)), Tail(rows))

Aggregate(rows) == AggFold(<<>>, rows)

\* ------------------------------------------------------------------ joins
NullTag == [id |-> NullId]
NullHabitTag == [habitId |-> NullId]

\* faulty variant of JoinHabit: inner joins, a habit without tags has no row
JoinHabit_InnerJoin(h) ==
  LET m == SelectSeq(VisibleTags, LAMBDA r : r.habitId = h.id)
  IN [i \in 1..Len(m) |->
        [habits |-> h, habit_tags |-> HabitTagRow(m[i]),
         tags |-> IF m[i].tagId \in 1..Len(tags)
                    THEN tags[m[i].tagId] ELSE NullTag]]

\* habits LEFT JOIN habit_tags LEFT JOIN tags, for one habit row
JoinHabit(h) ==
  LET m == SelectSeq(VisibleTags, LAMBDA r : r.habitId = h.id)
  IN IF m = <<>>
       THEN <<[habits |-> h, habit_tags |-> NullHabitTag, tags |-> NullTag]>>
       ELSE [i \in 1..Len(m) |->
               [habits |-> h, habit_tags |-> HabitTagRow(m[i]),
                tags |-> IF m[i].tagId \in 1..Len(tags)
                           THEN tags[m[i].tagId] ELSE NullTag]]

\* faulty variants of OwnedLive: one condition of the filter dropped
OwnedLive_AnyOwner(h, userId) == h.deletedAt = NullTs
OwnedLive_DeletedToo(h, userId) == h.userId = userId

\* WHERE habits.user_id = userId AND habits.deleted_at IS NULL
OwnedLive(h, userId) == h.userId = userId /\ h.deletedAt = NullTs

\* faulty variant of ScopedMatch: the user_id condition dropped
ScopedMatch_AnyOwner(habitId, userId) ==
  habitId \in 1..Len(habits) /\ habits[habitId].deletedAt = NullTs

\* WHERE habits.id = habitId AND user_id = userId AND deleted_at IS NULL
ScopedMatch(habitId, userId) ==
  habitId \in 1..Len(habits) /\ OwnedLive(habits[habitId], userId)

SelectUserHabits(userId) ==
  Flatten([i \in 1..Len(habits) |->
             IF OwnedLive(habits[i], userId)
               THEN JoinHabit(habits[i]) ELSE <<>>])

SelectHabitById(habitId, userId) ==
  Flatten([i \in 1..Len(habits) |->
             IF ScopedMatch(i, userId) /\ i = habitId
               THEN JoinHabit(habits[i]) ELSE <<>>])

\* ----------------------------------------------------------- request shape
NoReq == [op |-> "none", actor |-> Null, habitId |-> NoSuchHabit,
          tagId |-> NoSuchTag, body |-> EmptyBody, at |-> 0]
NoResp == [status |-> 0, message |-> "", body |-> Undefined]

NewRequest(op, userId, habitId, body) ==
  [op |-> op, actor |-> userId, habitId |-> habitId, tagId |-> NoSuchTag,
   body |-> body, at |-> clock + 1]

HabitIdInputs == {NoSuchHabit} \cup (1..Len(habits))

\* bodies accepted by createNewHabitSchema
CreateBodies ==
  {Spread(s, t) :
     s \in {[name |-> "read"]},
     t \in {EmptyBody} \cup {[tagIds |-> l] : l \in TagIdArrays}}

\* bodies accepted by updateHabitSchema: at least one field is present
UpdateBodies ==
  {Spread(s, t) :
     s \in {EmptyBody, [name |-> "walk"]},
     t \in {EmptyBody} \cup {[tagIds |-> l] : l \in TagIdArrays}}
  \ {EmptyBody}

\* ------------------------------------------------------------------- Init
SeedHabits == <<[id |-> 1, userId |-> "u1", name |-> "exercise",
                 isActive |-> TRUE, deletedAt |-> NullTs]>>
SeedTags == <<[id |-> 1, name |-> "health", createdById |-> Null,
               deletedAt |-> NullTs],
              [id |-> 2, name |-> "sport", createdById |-> "u1",
               deletedAt |-> NullTs]>>
SeedHabitTags == <<[habitId |-> 1, tagId |-> 1, createdAt |-> 0,
                    deletedAt |-> NullTs,
                    xmin |-> NoProc, xmax |-> NoProc, want |-> {}]>>

\* bcrypt.hash(password, rounds): the hash stands for its password and is
\* not a password; bcrypt.compare(password, hash)
hashPassword(password) == <<"bcrypt", password>>
comparePassword(password, hash) == hash = hashPassword(password)

\* seed: the demo user
SeedUsers == <<[id |-> "u1", email |-> "testuser@test.com",
                userName |-> "test", firstName |-> "test",
                password |-> hashPassword("Password@123456"),
                deletedAt |-> NullTs]>>

\* a request without an Authorization header, and one whose token
\* jwtVerify refuses; a valid token is written as the id of its payload
NoToken == "none"
BadToken == "bad"

\* err.status of an error that was given none
NoStatus == 0
\* err.cause of an error that has none
NoCause == [present |-> FALSE, typeofCode |-> "undefined", code |-> <<>>]
NoError == [status |-> NoStatus, message |-> "", cause |-> NoCause,
            zod |-> FALSE]

\* no request is in the middleware and the limiter has counted none
AppIdle ==
  /\ headers = [p \in Procs |-> NoToken]
  /\ window = [u \in Users |-> 0]

InitStore ==
  /\ users = SeedUsers
  /\ AppIdle
  /\ err = NoError
  /\ habits = SeedHabits
  /\ habitTags = SeedHabitTags
  /\ tags = SeedTags
  /\ rowLock = [h \in 1..MaxHabits |-> NoProc]
  /\ clock = 0
  /\ pc = [p \in Procs |-> "idle"]
  /\ req = [p \in Procs |-> NoReq]
  /\ resp = [p \in Procs |-> NoResp]
  /\ entries = <<>>

Init ==
  /\ InitStore
  /\ aggRows = <<>>
  /\ aggIdx = 0
  /\ aggMap = <<>>

\* A request is served on the first free slot (slots are interchangeable:
\* they stand for pooled connections).
FirstFree(p) ==
  /\ pc[p] = "idle"
  /\ \A q \in Procs : pc[q] = "idle" => SlotNo[p] <= SlotNo[q]

\* the controller of a request starts on a free slot or, when the middleware
\* of the route is modelled, on the slot whose request the router received
CanStart(p) == (FirstFree(p) \/ pc[p] = "router") /\ clock < MaxRequests

\* res.status(status).json(body), or next(error) with error.status = status;
\* the request r is over and its slot is free again
Send(p, r, status, message, body) ==
  /\ resp' = [resp EXCEPT ![p] = [status |-> status, message |-> message,
                                  body |-> body]]
  /\ pc' = [pc EXCEPT ![p] = "idle"]
  /\ req' = [req EXCEPT ![p] = r]

\* the message of a habit handler's response: its own on 200 and on the
\* errors it throws, errorHandler's for an error of the database
MessageOf(op, status) ==
  CASE status = 500 -> "An unexpected database error occurred."
    [] op = "createNewHabit" -> "New habit added successfully"
    [] op = "getHabitById" /\ status = 200 -> "Habit Details found"
    [] op = "getHabitById" -> "Habit Details not found"
    [] op = "updateHabit" /\ status = 200 -> "habit updated successfully"
    [] OTHER -> "habit not found"

Reply(p, r, status, body) == Send(p, r, status, MessageOf(r.op, status), body)

\* --------------------------------------------------------- createNewHabit
\* tx.insert(habits).values({userId, name, ..., isActive?}).returning()
NewHabitRow(userId, body) ==
  [id |-> Len(habits) + 1, userId |-> userId, name |-> body.name,
   isActive |-> IF "isActive" \in DOMAIN body THEN body.isActive ELSE TRUE,
   deletedAt |-> NullTs]

\* tagIds.map((id) => ({habitId, tagId: id}))
HabitTagValues(habitId, tagIds, at, p) ==
  [i \in 1..Len(tagIds) |->
     [habitId |-> habitId, tagId |-> tagIds[i], createdAt |-> at,
      deletedAt |-> NullTs, xmin |-> p, xmax |-> NoProc, want |-> {}]]

\* foreign key habit_tags.tag_id -> tags.id
TagsExist(tagIds) == \A i \in 1..Len(tagIds) : tagIds[i] \in 1..Len(tags)

\* if (tagIds && tagIds.length > 0)
CreateInsertsTags(body) == TagIdsGiven(body) /\ Len(body.tagIds) > 0

\* both inserts of the transaction succeed
CreateCommits(userId, body) ==
  /\ userId \in Users                                  \* habits.user_id FK
  /\ CreateInsertsTags(body) => TagsExist(body.tagIds)

\* The whole transaction of createNewHabit.  The new habit's id is fresh, so
\* no other request can name, read or lock its rows before the commit: the
\* transaction is one step for every observer.
CreateCommitted(p, r) ==
  LET userId == r.actor
      body == r.body
      newHabit == NewHabitRow(userId, body)
  IN /\ habits' = Append(habits, newHabit)
     /\ habitTags' =
          IF CreateInsertsTags(body)
            THEN habitTags \o
                 HabitTagValues(newHabit.id, body.tagIds, clock + 1, NoProc)
            ELSE habitTags
     /\ Reply(p, r, 200, <<newHabit>>)

\* faulty variant of CreateRolledBack: the habit insert ran outside the
\* transaction, so the failed tag insert leaves the habit row behind
CreateRolledBack_HabitKept(p, r) ==
  /\ habits' = Append(habits, NewHabitRow(r.actor, r.body))
  /\ UNCHANGED habitTags
  /\ Reply(p, r, 500, Undefined)

\* an insert throws and db.transaction rolls back
CreateRolledBack(p, r) ==
  /\ UNCHANGED <<habits, habitTags>>
  /\ Reply(p, r, 500, Undefined)

createNewHabit(p, userId, body) ==
  /\ CanStart(p)
  /\ Len(habits) < MaxHabits
  /\ clock' = clock + 1
  /\ LET r == NewRequest("createNewHabit", userId, Len(habits) + 1, body)
     IN IF CreateCommits(userId, body) THEN CreateCommitted(p, r)
        ELSE CreateRolledBack(p, r)
  /\ UNCHANGED <<tags, rowLock, restVars>>

\* ----------------------------------------------------------- getHabitById
HabitDetails(habitId, userId) ==
  MapGet(Aggregate(SelectHabitById(habitId, userId)), habitId)

getHabitById(p, userId, habitId) ==
  /\ CanStart(p)
  /\ clock' = clock + 1
  /\ LET habitDetails == HabitDetails(habitId, userId)
     IN Reply(p, NewRequest("getHabitById", userId, habitId, EmptyBody),
              IF habitDetails # Undefined THEN 200 ELSE 404, habitDetails)
  /\ UNCHANGED <<dbVars, restVars>>

\* ------------------------------------------------------------ deleteHabit
\* faulty variant of SoftDelete: the row is deactivated as well
SoftDelete_Deactivates(row, at) ==
  [row EXCEPT !.deletedAt = at, !.isActive = FALSE]

\* .set({ deletedAt: new Date() })
SoftDelete(row, at) == [row EXCEPT !.deletedAt = at]

\* UPDATE habits SET deleted_at = now() WHERE id, user_id, deleted_at IS NULL
deleteHabit(p, userId, habitId) ==
  /\ CanStart(p)
  /\ ScopedMatch(habitId, userId) => rowLock[habitId] = NoProc  \* lock wait
  /\ habits' = IF ScopedMatch(habitId, userId)
                 THEN [habits EXCEPT ![habitId] = SoftDelete(@, clock + 1)]
                 ELSE habits
  /\ Send(p, NewRequest("deleteHabit", userId, habitId, EmptyBody), 200,
          IF ScopedMatch(habitId, userId) THEN "habit deleted successfully"
          ELSE "unable to delete habit",
          Undefined)
  /\ clock' = clock + 1
  /\ UNCHANGED <<habitTags, tags, rowLock, restVars>>

\* ------------------------------------------------------------ updateHabit
\* Object.keys(updates).length > 0
HasScalars(body) == DOMAIN RestOf(body) # {}

\* if (tagIds?.length || 0 > 0)
UpdateInsertsTags(body) == TagIdsGiven(body) /\ Len(body.tagIds) > 0

\* faulty variant of AfterScalar: the DELETE runs whether or not tagIds came
AfterScalar_AlwaysDeletes(body) == "upd_delete"

\* statement that follows the scalar update: if (tagIds !== undefined)
AfterScalar(body) == IF TagIdsGiven(body) THEN "upd_delete" ELSE "upd_commit"

AfterDelete(body) ==
  IF UpdateInsertsTags(body) THEN "upd_insert" ELSE "upd_commit"

\* ROLLBACK of the transaction of slot p
RolledBack(p) ==
  LET kept == SelectSeq(habitTags, LAMBDA r : r.xmin # p)
  IN [i \in 1..Len(kept) |->
        [kept[i] EXCEPT !.xmax = IF @ = p THEN NoProc ELSE @,
                        !.want = @ \ {p}]]

Unlocked(p) == [h \in DOMAIN rowLock |-> IF rowLock[h] = p THEN NoProc
                                         ELSE rowLock[h]]

\* a throw inside the callback: rollback, then next(error)
Abort(p, r, status) ==
  /\ habitTags' = RolledBack(p)
  /\ rowLock' = Unlocked(p)
  /\ Reply(p, r, status, Undefined)
  /\ UNCHANGED <<habits, tags>>

\* faulty variant of ScalarNotFound: the empty result is not checked and the
\* callback goes on to the tag statements
ScalarNotFound_NoThrow(p, r) ==
  /\ ~ScopedMatch(r.habitId, r.actor)
  /\ pc' = [pc EXCEPT ![p] = AfterScalar(r.body)]
  /\ req' = [req EXCEPT ![p] = r]
  /\ UNCHANGED <<habits, habitTags, tags, rowLock, resp>>

\* if (!updatedHabit) throw 404
ScalarNotFound(p, r) ==
  /\ ~ScopedMatch(r.habitId, r.actor)
  /\ Abort(p, r, 404)

\* faulty variant of ScalarUpdated: the UPDATE is sent on db, not on tx, and
\* is in the table at once
ScalarUpdated_OutsideTx(p, r) ==
  /\ ScopedMatch(r.habitId, r.actor)
  /\ rowLock[r.habitId] = NoProc
  /\ habits' = [habits EXCEPT ![r.habitId] = Spread(@, RestOf(r.body))]
  /\ rowLock' = [rowLock EXCEPT ![r.habitId] = p]
  /\ pc' = [pc EXCEPT ![p] = AfterScalar(r.body)]
  /\ req' = [req EXCEPT ![p] = r]
  /\ UNCHANGED <<habitTags, tags, resp>>

\* tx.update(habits).set({...updates}).where(...).returning()
ScalarUpdated(p, r) ==
  /\ ScopedMatch(r.habitId, r.actor)
  /\ rowLock[r.habitId] = NoProc               \* waits for the row lock
  /\ rowLock' = [rowLock EXCEPT ![r.habitId] = p]
  /\ pc' = [pc EXCEPT ![p] = AfterScalar(r.body)]
  /\ req' = [req EXCEPT ![p] = r]
  /\ UNCHANGED <<habits, habitTags, tags, resp>>

\* rows the DELETE finds: committed rows (and its own) of that habit id
DeleteTarget(row, p, habitId) ==
  row.habitId = habitId /\ row.xmin \in {NoProc, p} /\ row.xmax # p

DeleteBlocked(p, r) ==
  \E i \in 1..Len(habitTags) :
    /\ DeleteTarget(habitTags[i], p, r.habitId)
    /\ habitTags[i].xmax # NoProc

\* tx.delete(habitTags).where(eq(habitTags.habitId, habitId))
DeleteTags(p, r) ==
  /\ habitTags' =
       [i \in 1..Len(habitTags) |->
          IF DeleteTarget(habitTags[i], p, r.habitId)
            THEN IF habitTags[i].xmax = NoProc
                   THEN [habitTags[i] EXCEPT !.xmax = p]
                   ELSE [habitTags[i] EXCEPT !.want = @ \cup {p}]
            ELSE habitTags[i]]
  /\ pc' = [pc EXCEPT ![p] = IF DeleteBlocked(p, r) THEN "upd_delete_wait"
                             ELSE AfterDelete(r.body)]
  /\ req' = [req EXCEPT ![p] = r]
  /\ UNCHANGED <<habits, tags, rowLock, resp>>

\* A request with scalar fields: the transaction opens and runs its UPDATE.
\* (BEGIN touches no row, so the request is taken to arrive when its first
\* statement runs.)
updateHabitScalars(p, userId, habitId, body) ==
  /\ CanStart(p)
  /\ HasScalars(body)
  /\ clock' = clock + 1
  /\ LET r == NewRequest("updateHabit", userId, habitId, body)
     IN ScalarNotFound(p, r) \/ ScalarUpdated(p, r)
  /\ UNCHANGED restVars

\* A request with tagIds only: Object.keys(updates).length is 0, the
\* transaction opens and runs its DELETE.
updateHabitTagsOnly(p, userId, habitId, body) ==
  /\ CanStart(p)
  /\ ~HasScalars(body)
  /\ TagIdsGiven(body)
  /\ clock' = clock + 1
  /\ DeleteTags(p, NewRequest("updateHabit", userId, habitId, body))
  /\ UNCHANGED restVars

\* the DELETE of a request that updated scalar fields first
updateHabitDeleteTags(p) ==
  /\ pc[p] = "upd_delete"
  /\ DeleteTags(p, req[p])
  /\ UNCHANGED <<clock, restVars>>

\* the DELETE resumes once the transactions holding its target rows ended:
\* rows they deleted are gone, rows they released are deleted now
updateHabitDeleteResume(p) ==
  /\ pc[p] = "upd_delete_wait"
  /\ \A i \in 1..Len(habitTags) :
       p \in habitTags[i].want => habitTags[i].xmax = NoProc
  /\ habitTags' =
       [i \in 1..Len(habitTags) |->
          IF p \in habitTags[i].want
            THEN [habitTags[i] EXCEPT !.xmax = p, !.want = @ \ {p}]
            ELSE habitTags[i]]
  /\ pc' = [pc EXCEPT ![p] = AfterDelete(req[p].body)]
  /\ UNCHANGED <<habits, tags, rowLock, clock, req, resp, restVars>>

\* foreign keys of the rows to insert
InsertTagsAccepted(p) ==
  /\ req[p].habitId \in 1..Len(habits)         \* habit_tags.habit_id
  /\ TagsExist(req[p].body.tagIds)             \* habit_tags.tag_id

InsertTagsFails(p) ==
  /\ ~InsertTagsAccepted(p)
  /\ Abort(p, req[p], 500)

\* tx.insert(habitTags).values(habitTagValues)
InsertTagsDone(p) ==
  /\ InsertTagsAccepted(p)
  /\ habitTags' = habitTags \o
       HabitTagValues(req[p].habitId, req[p].body.tagIds, req[p].at, p)
  /\ pc' = [pc EXCEPT ![p] = "upd_commit"]
  /\ UNCHANGED <<habits, tags, rowLock, req, resp>>

updateHabitInsertTags(p) ==
  /\ pc[p] = "upd_insert"
  /\ InsertTagsFails(p) \/ InsertTagsDone(p)
  /\ UNCHANGED <<clock, restVars>>

\* COMMIT: the transaction's deletes and inserts take effect together
CommittedTags(p) ==
  LET kept == SelectSeq(habitTags, LAMBDA r : r.xmax # p)
  IN [i \in 1..Len(kept) |->
        [kept[i] EXCEPT !.xmin = IF @ = p THEN NoProc ELSE @]]

CommittedHabits(p) ==
  [i \in 1..Len(habits) |->
     IF rowLock[i] = p THEN Spread(habits[i], RestOf(req[p].body))
     ELSE habits[i]]

updateHabitCommit(p) ==
  /\ pc[p] = "upd_commit"
  /\ habits' = CommittedHabits(p)
  /\ habitTags' = CommittedTags(p)
  /\ rowLock' = Unlocked(p)
  /\ pc' = [pc EXCEPT ![p] = "upd_requery"]
  /\ UNCHANGED <<tags, clock, req, resp, restVars>>

\* the re-query after the transaction, and the response
updateHabitRespond(p) ==
  /\ pc[p] = "upd_requery"
  /\ Reply(p, req[p], 200, HabitDetails(req[p].habitId, req[p].actor))
  /\ UNCHANGED <<dbVars, clock, restVars>>

\* ------------------------------------------------------- other habit reads
\* getAllUserHabits: the join, 404 when it has no row, else the aggregation
getAllUserHabits(p, userId) ==
  /\ CanStart(p)
  /\ clock' = clock + 1
  /\ LET result == SelectUserHabits(userId)
         r == NewRequest("getAllUserHabits", userId, NoSuchHabit, EmptyBody)
     IN IF Len(result) = 0
          THEN Send(p, r, 404, "Habits not found", Undefined)
          ELSE Send(p, r, 200, "User habits found",
                    <<MapValues(Aggregate(result))>>)
  /\ UNCHANGED <<dbVars, restVars>>

\* WHERE habits.user_id = userId AND habit_tags.tag_id = tagId
\*   AND habits.deleted_at IS NULL
SelectHabitsByTag(tagId, userId) ==
  SelectSeq(SelectUserHabits(userId),
            LAMBDA row : /\ row.habit_tags.habitId # NullId
                         /\ row.habit_tags.tagId = tagId)

getHabitsByTag(p, userId, tagId) ==
  /\ CanStart(p)
  /\ clock' = clock + 1
  /\ LET result == SelectHabitsByTag(tagId, userId)
         r == [NewRequest("getHabitsByTag", userId, NoSuchHabit, EmptyBody)
                 EXCEPT !.tagId = tagId]
     IN IF Len(result) = 0
          THEN Send(p, r, 404, "habits not found by tag", Undefined)
          ELSE Send(p, r, 200, "Habits found by tag",
                    <<MapValues(Aggregate(result))>>)
  /\ UNCHANGED <<dbVars, restVars>>

\* ---------------------------------------------------------- completeHabit
\* faulty variant of HabitInactive: the isActive test dropped
HabitInactive_NeverRefuses(habitDetails) == FALSE

\* if (!habitDetails.isActive)
HabitInactive(habitDetails) == ~habitDetails.isActive

\* db.select().from(habits).where(id, userId, deletedAt IS NULL), then the
\* two checks on its result
completeHabit(p, userId, habitId) ==
  /\ CanStart(p)
  /\ clock' = clock + 1
  /\ LET r == NewRequest("completeHabit", userId, habitId, EmptyBody)
     IN IF ~ScopedMatch(habitId, userId)
          THEN Send(p, r, 404, "habit not found", Undefined)
          ELSE IF HabitInactive(habits[habitId])
            THEN Send(p, r, 400, "Cannot complete an inactive habit",
                      Undefined)
            ELSE /\ pc' = [pc EXCEPT ![p] = "cmp_insert"]
                 /\ req' = [req EXCEPT ![p] = r]
                 /\ UNCHANGED resp
  /\ UNCHANGED <<dbVars, restVars>>

\* faulty variant of InsertEntry: one entry per habit, as under a unique
\* constraint on entries.habit_id with an upsert
InsertEntry_OnePerHabit(es, newEntry) ==
  Append(SelectSeq(es, LAMBDA e : e.habitId # newEntry.habitId), newEntry)

\* INSERT INTO entries: the table has no unique constraint but its key
InsertEntry(es, newEntry) == Append(es, newEntry)

\* db.insert(entries).values({habitId, note?}).returning(), and the response
completeHabitInsert(p) ==
  /\ pc[p] = "cmp_insert"
  /\ LET newEntry == [id |-> Len(entries) + 1, habitId |-> req[p].habitId,
                      createdAt |-> req[p].at]
     IN /\ entries' = InsertEntry(entries, newEntry)
        /\ Send(p, req[p], 200, "New entry added for habit", <<newEntry>>)
  /\ UNCHANGED <<dbVars, clock, aggVars, appVars>>

\* ------------------------------------------------------------ tag handlers
\* the projection of the tag reads: tags left-joined with users
TagView(t) ==
  [id |-> t.id, name |-> t.name, createdBy |-> [id |-> t.createdById]]

TagIdInputs == {NoSuchTag} \cup (1..Len(tags))

\* bodies accepted by updateTagSchema (name or color present)
UpdateTagBodies == {[name |-> "fitness"]}

TagRequest(op, userId, tagId, body) ==
  [NewRequest(op, userId, NoSuchHabit, body) EXCEPT !.tagId = tagId]

\* WHERE (created_by_id = userId OR created_by_id IS NULL)
\*   AND deleted_at IS NULL
UserTagVisible(t, userId) ==
  /\ t.createdById = userId \/ t.createdById = Null
  /\ t.deletedAt = NullTs

getUserTags(p, userId) ==
  /\ CanStart(p)
  /\ clock' = clock + 1
  /\ LET found == SelectSeq(tags, LAMBDA t : UserTagVisible(t, userId))
         tagsArray == [i \in 1..Len(found) |-> TagView(found[i])]
         r == TagRequest("getUserTags", userId, NoSuchTag, EmptyBody)
     IN IF Len(tagsArray) = 0
          THEN Send(p, r, 200, "user habit tags not found", Undefined)
          ELSE Send(p, r, 200, "user habit tags found", <<tagsArray>>)
  /\ UNCHANGED <<dbVars, restVars>>

\* WHERE tags.id = tagId
TagById(tagId) == IF tagId \in 1..Len(tags) THEN <<tags[tagId]>> ELSE Undefined

getUserTagById(p, userId, tagId) ==
  /\ CanStart(p)
  /\ clock' = clock + 1
  /\ LET found == TagById(tagId)
         r == TagRequest("getUserTagById", userId, tagId, EmptyBody)
     IN IF found = Undefined
          THEN Send(p, r, 404, "tag details not found", Undefined)
          ELSE Send(p, r, 200, "habit tag details found",
                    <<TagView(found[1])>>)
  /\ UNCHANGED <<dbVars, restVars>>

\* faulty variant of TagAlreadyDeleted: the deletedAt test dropped
TagAlreadyDeleted_NeverRefuses(tagDetails) == FALSE

\* if (tagDetails.deletedAt !== null)
TagAlreadyDeleted(tagDetails) == tagDetails.deletedAt # NullTs

\* faulty variant of SystemTag: the createdById test dropped
SystemTag_NeverRefuses(tagDetails) == FALSE

\* if (tagDetails.createdById === null)
SystemTag(tagDetails) == tagDetails.createdById = Null

\* deleteTag up to its UPDATE: the select by id and the three checks
deleteTag(p, userId, tagId) ==
  /\ CanStart(p)
  /\ clock' = clock + 1
  /\ LET tagDetails == TagById(tagId)
         r == TagRequest("deleteTag", userId, tagId, EmptyBody)
     IN IF tagDetails = Undefined
          THEN Send(p, r, 404, "habit tag not found", Undefined)
          ELSE IF TagAlreadyDeleted(tagDetails[1])
            THEN Send(p, r, 400, "habit tag has already been deleted",
                      Undefined)
            ELSE IF SystemTag(tagDetails[1])
              THEN Send(p, r, 400,
                     "system default habit tags cannot be deleted by users",
                     Undefined)
              ELSE /\ pc' = [pc EXCEPT ![p] = "deltag_update"]
                   /\ req' = [req EXCEPT ![p] = r]
                   /\ UNCHANGED resp
  /\ UNCHANGED <<dbVars, restVars>>

\* faulty variant of TagOwnedBy: the created_by_id condition dropped
TagOwnedBy_AnyCreator(tagId, userId) == tagId \in 1..Len(tags)

\* WHERE tags.id = tagId AND tags.created_by_id = userId
TagOwnedBy(tagId, userId) ==
  tagId \in 1..Len(tags) /\ tags[tagId].createdById = userId

\* UPDATE tags SET deleted_at = new Date() WHERE id, created_by_id; response
deleteTagUpdate(p) ==
  /\ pc[p] = "deltag_update"
  /\ IF TagOwnedBy(req[p].tagId, req[p].actor)
       THEN /\ tags' = [tags EXCEPT ![req[p].tagId].deletedAt = req[p].at]
            /\ Send(p, req[p], 200, "user habit tag deleted successfully",
                    Undefined)
       ELSE /\ UNCHANGED tags
            /\ Send(p, req[p], 400, "unable to delete habit tag", Undefined)
  /\ UNCHANGED <<habits, habitTags, rowLock, clock, restVars>>

\* updateTag up to its UPDATE: the select by id of a live tag, two checks
updateTag(p, userId, tagId, body) ==
  /\ CanStart(p)
  /\ clock' = clock + 1
  /\ LET r == TagRequest("updateTag", userId, tagId, body)
     IN IF ~(tagId \in 1..Len(tags) /\ tags[tagId].deletedAt = NullTs)
          THEN Send(p, r, 404, "habit tag not found", Undefined)
          ELSE IF SystemTag(tags[tagId])
            THEN Send(p, r, 400,
                   "system default habit tags cannot be updated by users",
                   Undefined)
            ELSE /\ pc' = [pc EXCEPT ![p] = "updtag_update"]
                 /\ req' = [req EXCEPT ![p] = r]
                 /\ UNCHANGED resp
  /\ UNCHANGED <<dbVars, restVars>>

\* UPDATE tags SET name?, color? WHERE id, created_by_id
updateTagUpdate(p) ==
  /\ pc[p] = "updtag_update"
  /\ IF TagOwnedBy(req[p].tagId, req[p].actor)
       THEN /\ tags' = [tags EXCEPT ![req[p].tagId] = Spread(@, req[p].body)]
            /\ pc' = [pc EXCEPT ![p] = "updtag_requery"]
            /\ UNCHANGED <<req, resp>>
       ELSE /\ UNCHANGED tags
            /\ Send(p, req[p], 400, "unable to update habit tag", Undefined)
  /\ UNCHANGED <<habits, habitTags, rowLock, clock, restVars>>

\* the select by id after the UPDATE, and the response
updateTagRespond(p) ==
  /\ pc[p] = "updtag_requery"
  /\ Send(p, req[p], 200, "habit tag updated successfully",
          <<TagView(tags[req[p].tagId])>>)
  /\ UNCHANGED <<dbVars, clock, restVars>>

\* ------------------------------------------------------------------- Next
Next ==
  \/ \E p \in Procs : CanStart(p) /\
       \E u \in Users \cup {GhostUser}, b \in CreateBodies :
         createNewHabit(p, u, b)
  \/ \E p \in Procs : CanStart(p) /\
       \E u \in Users, h \in HabitIdInputs : getHabitById(p, u, h)
  \/ \E p \in Procs : CanStart(p) /\
       \E u \in Users, h \in HabitIdInputs : deleteHabit(p, u, h)
  \/ \E p \in Procs : CanStart(p) /\
       \E u \in Users, h \in HabitIdInputs, b \in UpdateBodies :
         updateHabitScalars(p, u, h, b)
  \/ \E p \in Procs : CanStart(p) /\
       \E u \in Users, h \in HabitIdInputs, b \in UpdateBodies :
         updateHabitTagsOnly(p, u, h, b)
  \/ \E p \in Procs : updateHabitDeleteTags(p)
  \/ \E p \in Procs : updateHabitDeleteResume(p)
  \/ \E p \in Procs : updateHabitInsertTags(p)
  \/ \E p \in Procs : updateHabitCommit(p)
  \/ \E p \in Procs : updateHabitRespond(p)

Spec == Init /\ [][Next]_vars

TypeOK ==
  /\ clock \in 0..MaxRequests
  /\ Len(habits) <= MaxHabits
  /\ \A p \in Procs : pc[p] \in {"idle", "upd_delete", "upd_delete_wait",
                                 "upd_insert", "upd_commit", "upd_requery",
                                 "cmp_insert", "deltag_update",
                                 "updtag_update", "updtag_requery",
                                 "authenticate", "rateLimiting", "router"}

\* ------------------------------------------- every handler, a wider store
\* The habit and tag handlers together, on a store with a habit of each
\* user; updateHabit with scalar fields only.
ScalarBodies == {[name |-> "walk"], [isActive |-> FALSE]}

OpsHabits == <<[id |-> 1, userId |-> "u1", name |-> "exercise",
                isActive |-> TRUE, deletedAt |-> NullTs],
               [id |-> 2, userId |-> "u2", name |-> "read",
                isActive |-> TRUE, deletedAt |-> NullTs]>>

\* the demo user and a second, registered user
OpsUsers == Append(SeedUsers,
                   [id |-> "u2", email |-> "reader@test.com",
                    userName |-> "reader", firstName |-> "reader",
                    password |-> hashPassword("Password@1"),
                    deletedAt |-> NullTs])

OpsStore ==
  /\ users = OpsUsers
  /\ habits = OpsHabits
  /\ habitTags = SeedHabitTags
  /\ tags = SeedTags
  /\ rowLock = [h \in 1..MaxHabits |-> NoProc]
  /\ clock = 0
  /\ pc = [p \in Procs |-> "idle"]
  /\ req = [p \in Procs |-> NoReq]
  /\ resp = [p \in Procs |-> NoResp]
  /\ entries = <<>>
  /\ aggRows = <<>>
  /\ aggIdx = 0
  /\ aggMap = <<>>

InitOps ==
  /\ OpsStore
  /\ AppIdle
  /\ err = NoError

NextOps ==
  \/ \E p \in Procs : CanStart(p) /\
       \E u \in Users : getAllUserHabits(p, u)
  \/ \E p \in Procs : CanStart(p) /\
       \E u \in Users, h \in HabitIdInputs : getHabitById(p, u, h)
  \/ \E p \in Procs : CanStart(p) /\
       \E u \in Users, t \in TagIdInputs : getHabitsByTag(p, u, t)
  \/ \E p \in Procs : CanStart(p) /\
       \E u \in Users, h \in HabitIdInputs : deleteHabit(p, u, h)
  \/ \E p \in Procs : CanStart(p) /\
       \E u \in Users, h \in HabitIdInputs, b \in ScalarBodies :
         updateHabitScalars(p, u, h, b)
  \/ \E p \in Procs : updateHabitCommit(p)
  \/ \E p \in Procs : updateHabitRespond(p)
  \/ \E p \in Procs : CanStart(p) /\
       \E u \in Users, h \in HabitIdInputs : completeHabit(p, u, h)
  \/ \E p \in Procs : completeHabitInsert(p)
  \/ \E p \in Procs : CanStart(p) /\
       \E u \in Users : getUserTags(p, u)
  \/ \E p \in Procs : CanStart(p) /\
       \E u \in Users, t \in TagIdInputs : getUserTagById(p, u, t)
  \/ \E p \in Procs : CanStart(p) /\
       \E u \in Users, t \in TagIdInputs : deleteTag(p, u, t)
  \/ \E p \in Procs : deleteTagUpdate(p)
  \/ \E p \in Procs : CanStart(p) /\
       \E u \in Users, t \in TagIdInputs, b \in UpdateTagBodies :
         updateTag(p, u, t, b)
  \/ \E p \in Procs : updateTagUpdate(p)
  \/ \E p \in Procs : updateTagRespond(p)

SpecOps == InitOps /\ [][NextOps]_vars

\* ------------------------------------------------- aggregation on its own
\* The forEach of getAllUserHabits / getHabitById / getHabitsByTag /
\* updateHabit, run row by row over an arbitrary sequence of join rows.
AggHabitIds == 1..2
AggTagIds == 1..2
AggRowInputs ==
  {[habits |-> [id |-> h], habit_tags |-> NullHabitTag, tags |-> t] :
     h \in AggHabitIds, t \in {NullTag} \cup {[id |-> i] : i \in AggTagIds}}

InitAgg ==
  /\ InitStore
  /\ aggRows \in UNION {[1..n -> AggRowInputs] : n \in 0..MaxRows}
  /\ aggIdx = 0
  /\ aggMap = <<>>

\* result.forEach((row) => { ... }), one row
aggregateRow ==
  /\ aggIdx < Len(aggRows)
  /\ aggMap' = AggStep(aggMap, aggRows[aggIdx + 1])
  /\ aggIdx' = aggIdx + 1
  /\ UNCHANGED <<dbVars, clock, pc, req, resp, entries, aggRows, appVars>>

NextAgg == aggregateRow

SpecAgg == InitAgg /\ [][NextAgg]_vars

\* ----------------------------------------------------------- errorHandler
\* Strings that the handler matches against a pattern are written as
\* sequences of characters.
Digits == {"0", "1", "2", "3", "4", "5", "6", "7", "8", "9"}

\* err.cause.code.match(/^\d{5}$/)
MatchesSqlState(code) ==
  Len(code) = 5 /\ \A i \in 1..Len(code) : code[i] \in Digits

NetworkCodes ==
  {<<"E", "T", "I", "M", "E", "D", "O", "U", "T">>,
   <<"E", "C", "O", "N", "N", "R", "E", "F", "U", "S", "E", "D">>,
   <<"E", "N", "O", "T", "F", "O", "U", "N", "D">>,
   <<"E", "H", "O", "S", "T", "U", "N", "R", "E", "A", "C", "H">>}

\* [...].includes(err.cause.code)
IsNetworkCode(code) == code \in NetworkCodes

\* the status and message errorHandler sends for the error e
errorHandler(e) ==
  LET message == IF e.message = "" THEN "internal server error"
                 ELSE e.message
      status == IF e.status = NoStatus THEN 500 ELSE e.status
  IN IF e.zod
       THEN [status |-> 400, message |-> "Validation error"]
       ELSE IF /\ status = 500
               /\ e.cause.present
               /\ e.cause.typeofCode = "string"
         THEN IF MatchesSqlState(e.cause.code)
                THEN [status |-> 500,
                      message |-> "An unexpected database error occurred."]
                ELSE IF IsNetworkCode(e.cause.code)
                  THEN [status |-> 503,
                        message |-> "Could not connect to the database. Please try again later."]
                  ELSE [status |-> 500,
                        message |-> "A database-related error occurred."]
         ELSE [status |-> status, message |-> message]

\* new Error(message) with error.status = status
StatusError(status, message) ==
  [status |-> status, message |-> message, cause |-> NoCause, zod |-> FALSE]

\* the error drizzle throws for a failed query: its cause is the driver's
\* error, whose code is the SQLSTATE or the code of the socket error
QueryError(code) ==
  [status |-> NoStatus, message |-> "Failed query",
   cause |-> [present |-> TRUE, typeofCode |-> "string", code |-> code],
   zod |-> FALSE]

UniqueViolation == <<"2", "3", "5", "0", "5">>

\* next(error): the response of errorHandler, sent on slot p for request r
NextError(p, r, e) ==
  Send(p, r, errorHandler(e).status, errorHandler(e).message, Undefined)

\* ------------------------------------------------- errorHandler on its own
ErrStatuses == {NoStatus, 400, 401, 404, 409, 429, 500}
ErrMessages == {"", "habit not found",
                "Cannot read properties of undefined (reading 'password')"}
ErrCodes == NetworkCodes \cup
            {UniqueViolation,
             <<"4", "2", "P", "0", "1">>,
             <<"2", "3", "5", "0">>,
             <<"E", "P", "I", "P", "E">>}
ErrCauses ==
  {NoCause, [present |-> TRUE, typeofCode |-> "number", code |-> <<>>]}
  \cup {[present |-> TRUE, typeofCode |-> "string", code |-> c] :
          c \in ErrCodes}

\* the errors that reach errorHandler: plain errors with or without a status
\* and a cause, and the ZodError of a failed validation
ErrInputs ==
  [status : ErrStatuses, message : ErrMessages, cause : ErrCauses,
   zod : {FALSE}]
  \cup [status : {NoStatus}, message : {"Invalid input"}, cause : {NoCause},
        zod : {TRUE}]

InitErr ==
  /\ OpsStore
  /\ AppIdle
  /\ err \in ErrInputs

\* app.use(errorHandler), applied to the error of the run
handleError ==
  /\ resp["p1"] = NoResp
  /\ err \in ErrInputs
  /\ NextError("p1", NoReq, err)
  /\ UNCHANGED <<dbVars, clock, restVars>>

NextErr == handleError

SpecErr == InitErr /\ [][NextErr]_vars

\* ------------------------------------------------- register, user handlers
\* users.id of the next row (defaultRandom): an id no row has
UserIdOf == <<"u1", "u2", "u3", "u4">>

\* bodies accepted by registerSchema: an email, a userName of 8 characters
\* or more
RegisterBodies ==
  [email : {"testuser@test.com", "ann@test.com", "bob@test.com"},
   userName : {"username1", "username2"},
   password : {"Password@1"}]

\* delete user.password: the row without its password
UserView(u) ==
  [id |-> u.id, email |-> u.email, userName |-> u.userName,
   firstName |-> u.firstName, deletedAt |-> u.deletedAt]

\* the unique indexes of users on email and on username: they cover every
\* row, soft-deleted or not
UniqueTaken(us, body) ==
  \E i \in 1..Len(us) :
    us[i].email = body.email \/ us[i].userName = body.userName

\* faulty variant of IsUniqueViolation: the catch never recognises the code
IsUniqueViolation_Never(e) == FALSE

\* if (e.cause && e.cause.code == "23505")
IsUniqueViolation(e) == e.cause.present /\ e.cause.code = UniqueViolation

\* db.insert(users).values({...}).returning(), the response, and the catch
register(p, body) ==
  /\ CanStart(p)
  /\ clock' = clock + 1
  /\ LET r == NewRequest("register", Null, NoSuchHabit, body)
         newUser == [id |-> UserIdOf[Len(users) + 1], email |-> body.email,
                     userName |-> body.userName, firstName |-> "",
                     password |-> hashPassword(body.password),
                     deletedAt |-> NullTs]
         e == QueryError(UniqueViolation)
     IN IF UniqueTaken(users, body)
          THEN /\ UNCHANGED users
               /\ IF IsUniqueViolation(e)
                    THEN NextError(p, r, StatusError(409,
                           "Account with this email or username already exists"))
                    ELSE NextError(p, r, e)
          ELSE /\ users' = Append(users, newUser)
               /\ Send(p, r, 200, "new user created successfully",
                       <<UserView(newUser)>>)
  /\ UNCHANGED <<dbVars, entries, aggVars, headers, window, err>>

\* bodies accepted by loginSchema
LoginBodies ==
  [email : {"testuser@test.com", "ann@test.com", "bob@test.com"},
   password : {"Password@123456", "Password@1"}]

\* select from users where email = ? and deleted_at is null; the password
\* check; the response
login(p, body) ==
  /\ CanStart(p)
  /\ clock' = clock + 1
  /\ LET r == NewRequest("login", Null, NoSuchHabit, body)
         user == SelectSeq(users, LAMBDA u : /\ u.email = body.email
                                            /\ u.deletedAt = NullTs)
     IN IF user = <<>>
          THEN NextError(p, r, StatusError(400, "Invalid Credentials"))
          ELSE IF ~comparePassword(body.password, user[1].password)
            THEN NextError(p, r, StatusError(400, "Invalid Credentials"))
            ELSE Send(p, r, 200, "user logged in", <<UserView(user[1])>>)
  /\ UNCHANGED <<dbVars, restVars>>

\* delete userDetails.password on an undefined userDetails
PasswordOfUndefined ==
  [status |-> NoStatus,
   message |-> "Cannot read properties of undefined (reading 'password')",
   cause |-> NoCause, zod |-> FALSE]

\* db.select().from(users).where(eq(users.id, authenticatedUser.id))
UserById(userId) == SelectSeq(users, LAMBDA u : u.id = userId)

getUserDetails(p, userId) ==
  /\ CanStart(p)
  /\ clock' = clock + 1
  /\ LET r == NewRequest("getUserDetails", userId, NoSuchHabit, EmptyBody)
     IN IF UserById(userId) = <<>>
          THEN NextError(p, r, PasswordOfUndefined)
          ELSE Send(p, r, 200, "user details fetched",
                    <<UserView(UserById(userId)[1])>>)
  /\ UNCHANGED <<dbVars, restVars>>

\* bodies accepted by updateUserSchema
UpdateUserBodies == {[firstName |-> "ann"], [firstName |-> "tess"]}

\* db.update(users).set({firstName?, lastName?}).where(id).returning()
updateUser(p, userId, body) ==
  /\ CanStart(p)
  /\ clock' = clock + 1
  /\ users' = [i \in 1..Len(users) |->
                 IF users[i].id = userId THEN Spread(users[i], body)
                 ELSE users[i]]
  /\ LET r == NewRequest("updateUser", userId, NoSuchHabit, body)
     IN IF UserById(userId) = <<>>
          THEN NextError(p, r, PasswordOfUndefined)
          ELSE Send(p, r, 200, "user updated successfully",
                    <<UserView(Spread(UserById(userId)[1], body))>>)
  /\ UNCHANGED <<dbVars, entries, aggVars, headers, window, err>>

NextAuth ==
  \/ \E p \in Procs : CanStart(p) /\
       \E b \in RegisterBodies : register(p, b)
  \/ \E p \in Procs : CanStart(p) /\
       \E b \in LoginBodies : login(p, b)
  \/ \E p \in Procs : CanStart(p) /\
       \E u \in Users : getUserDetails(p, u)
  \/ \E p \in Procs : CanStart(p) /\
       \E u \in Users, b \in UpdateUserBodies : updateUser(p, u, b)

SpecAuth == Init /\ [][NextAuth]_vars

\* ------------------------------------ the middleware in front of the routers
\* app.use(path, authenticate, rateLimiting, router)
Routes == {"/api/user", "/api/habits", "/api/tags"}
HeaderInputs == {NoToken, BadToken} \cup Users

\* Ratelimit.fixedWindow(10, "30 s")
LimiterTokens == 10
\* the window of an identifier when the run starts: earlier requests of the
\* window have left it one token
WindowStart == LimiterTokens - 1

InitApp ==
  /\ OpsStore
  /\ headers = [p \in Procs |-> NoToken]
  /\ window = [u \in Users |-> WindowStart]
  /\ err = NoError

\* express passes a new request of a protected route to authenticate
receive(p, route, header) ==
  /\ FirstFree(p)
  /\ clock < MaxRequests
  /\ pc' = [pc EXCEPT ![p] = "authenticate"]
  /\ req' = [req EXCEPT ![p] = [NoReq EXCEPT !.op = route]]
  /\ headers' = [headers EXCEPT ![p] = header]
  /\ UNCHANGED <<dbVars, clock, resp, entries, aggVars, users, window, err>>

\* what jwtVerify throws for a token it refuses
JwtError ==
  [status |-> NoStatus, message |-> "Invalid Compact JWS",
   cause |-> NoCause, zod |-> FALSE]

authenticate(p) ==
  /\ pc[p] = "authenticate"
  /\ IF headers[p] = NoToken
       THEN NextError(p, req[p], StatusError(401, "Bad request"))
       ELSE IF headers[p] = BadToken
         THEN NextError(p, req[p], JwtError)
         ELSE /\ req' = [req EXCEPT ![p].actor = headers[p]]
              /\ pc' = [pc EXCEPT ![p] = "rateLimiting"]
              /\ UNCHANGED resp
  /\ UNCHANGED <<dbVars, clock, restVars>>

\* faulty variant of LimiterSuccess: every request is admitted
LimiterSuccess_Always(count) == TRUE

\* { success } of ratelimit.limit(identifier): the request is within the
\* tokens of the window
LimiterSuccess(count) == count <= LimiterTokens

\* the count of the identifier after this request (kept below a cap)
Counted(identifier) ==
  IF window[identifier] > LimiterTokens THEN window[identifier]
  ELSE window[identifier] + 1

rateLimiting(p) ==
  /\ pc[p] = "rateLimiting"
  /\ window' = [window EXCEPT ![req[p].actor] = Counted(req[p].actor)]
  /\ IF LimiterSuccess(Counted(req[p].actor))
       THEN /\ pc' = [pc EXCEPT ![p] = "router"]
            /\ UNCHANGED <<req, resp>>
       ELSE NextError(p, req[p], StatusError(429, "too many requests,"))
  /\ UNCHANGED <<dbVars, clock, entries, aggVars, users, headers, err>>

\* the request of slot p reached the router mounted on route
Routed(p, route) == pc[p] = "router" /\ req[p].op = route

NextApp ==
  \/ \E p \in Procs : FirstFree(p) /\
       \E route \in Routes, header \in HeaderInputs :
         receive(p, route, header)
  \/ \E p \in Procs : authenticate(p)
  \/ \E p \in Procs : rateLimiting(p)
  \/ \E p \in Procs : Routed(p, "/api/user") /\
       getUserDetails(p, req[p].actor)
  \/ \E p \in Procs : Routed(p, "/api/habits") /\
       \E h \in HabitIdInputs : deleteHabit(p, req[p].actor, h)
  \/ \E p \in Procs : Routed(p, "/api/tags") /\
       \E t \in TagIdInputs : deleteTag(p, req[p].actor, t)
  \/ \E p \in Procs : deleteTagUpdate(p)

SpecApp == InitApp /\ [][NextApp]_vars

\* ================================================================ claims
\* Vocabulary of the claims.
\* the committed habit_tags rows of habit h in heap ht, as a reader gets them
RowsIn(ht, h) ==
  LET m == SelectSeq(ht, LAMBDA r : Committed(r) /\ r.habitId = h)
  IN [i \in 1..Len(m) |-> HabitTagRow(m[i])]
RowsOf(h) == RowsIn(habitTags, h)
HabitTagIds(h) == [i \in 1..Len(RowsOf(h)) |-> RowsOf(h)[i].tagId]

\* the rows a tagIds array l stands for, inserted by a request accepted at t
RowsFor(h, l, t) ==
  [i \in 1..Len(l) |->
     [habitId |-> h, tagId |-> l[i], createdAt |-> t, deletedAt |-> NullTs]]

\* what a statement outside the transactions reads from: the habits and tags
\* tables and the committed habit_tags rows.  SelectUserHabits and
\* SelectHabitById, the joins behind getAllUserHabits and getHabitById, are
\* functions of these three.
ReaderStore ==
  <<habits, tags, [i \in 1..Len(VisibleTags) |-> HabitTagRow(VisibleTags[i])]>>

\* the tag ids getHabitById(h) lists for user u
ReadTagIds(h, u) ==
  LET d == HabitDetails(h, u)
  IN IF d = Undefined THEN <<>>
     ELSE [i \in 1..Len(d[1].tags) |-> d[1].tags[i].id]

\* slot p took the step
Moved(p) == pc'[p] # pc[p] \/ req'[p] # req[p]
\* the step is the first statement of a request accepted on slot p
Accepted(p, op) ==
  /\ clock' = clock + 1
  /\ req'[p].at = clock'
  /\ req'[p].op = op
\* the step is the COMMIT of the updateHabit transaction of slot p
Commits(p) == pc[p] = "upd_commit" /\ pc'[p] = "upd_requery"

\* l without its repeated elements, first occurrences kept
RECURSIVE Dedup(_)
Dedup(l) ==
  IF l = <<>> THEN <<>>
  ELSE LET d == Dedup(SubSeq(l, 1, Len(l) - 1))
       IN IF l[Len(l)] \in Range(d) THEN d ELSE Append(d, l[Len(l)])

\* C1: an updateHabit by an actor on a habit id that is not a live habit of
\* that actor leaves the habit_tags rows of that id as they were (every step
\* of the request, tagIds-only requests included).
C1_ForeignHabitTagsUntouched ==
  [][\A p \in Procs, h \in HabitIdInputs :
       (/\ Moved(p)
        /\ req'[p].op = "updateHabit"
        /\ req'[p].habitId = h
        /\ ~ScopedMatch(h, req'[p].actor))
       => RowsIn(habitTags', h) = RowsIn(habitTags, h)]_vars

\* C2: when an updateHabit with a tagIds array l on the actor's live habit
\* commits, the habit's rows are exactly one row per element of l, in the
\* order of l, all of them inserted by this request.
C2_CommitLeavesExactlyTheList ==
  [][\A p \in Procs, h \in HabitIdInputs :
       (/\ Commits(p)
        /\ req[p].habitId = h
        /\ TagIdsGiven(req[p].body)
        /\ ScopedMatch(h, req[p].actor))
       => RowsIn(habitTags', h) = RowsFor(h, req[p].body.tagIds, req[p].at)]_vars

\* C3: no step of an updateHabit whose body omits tagIds changes the
\* habit_tags table, whether the request ends in success or in failure.
C3_OmittedTagIdsKeepsRows ==
  [][\A p \in Procs :
       (/\ Moved(p)
        /\ req'[p].op = "updateHabit"
        /\ ~TagIdsGiven(req'[p].body))
       => habitTags' = habitTags]_vars

\* C3 witness: an updateHabit without tagIds succeeded on a habit that still
\* lists a tag.
C3_Witness ==
  \E p \in Procs :
    /\ pc[p] = "idle"
    /\ req[p].op = "updateHabit"
    /\ ~TagIdsGiven(req[p].body)
    /\ resp[p].status = 200
    /\ resp[p].body # Undefined
    /\ resp[p].body[1].name = "walk"
    /\ Len(resp[p].body[1].tags) > 0

\* C4: an updateHabit with a scalar field whose scoped UPDATE matches no row
\* answers 404 at once and leaves every habits row and every habit_tags row
\* (pending or committed) as it was, also when tagIds came with it.
C4_ScalarNotFoundAbortsAll ==
  [][\A p \in Procs :
       (/\ pc[p] = "idle"
        /\ Accepted(p, "updateHabit")
        /\ HasScalars(req'[p].body)
        /\ ~ScopedMatch(req'[p].habitId, req'[p].actor))
       => /\ resp'[p].status = 404
          /\ pc'[p] = "idle"
          /\ habits' = habits
          /\ habitTags' = habitTags
          /\ rowLock' = rowLock]_vars

\* C4 witness: a request with a scalar field and tagIds on a habit that is
\* not the actor's ended 404, and the habit still has its tag rows.
C4_Witness ==
  \E p \in Procs :
    /\ pc[p] = "idle"
    /\ req[p].op = "updateHabit"
    /\ HasScalars(req[p].body)
    /\ TagIdsGiven(req[p].body)
    /\ req[p].habitId \in 1..Len(habits)
    /\ resp[p].status = 404
    /\ RowsOf(req[p].habitId) # <<>>

\* a request that is over (or past its COMMIT) has no pending row, no pending
\* delete and no lock left
C5_NothingPending ==
  \A p \in Procs :
    pc[p] \in {"idle", "upd_requery"} =>
      /\ \A i \in 1..Len(habitTags) :
           /\ habitTags[i].xmin # p
           /\ habitTags[i].xmax # p
           /\ p \notin habitTags[i].want
      /\ \A h \in DOMAIN rowLock : rowLock[h] # p

\* a step of an updateHabit before its COMMIT changes nothing a reader reads
\* from; the COMMIT brings all of the transaction's changes at once
C5_StepIsAtomic ==
  \A p \in Procs :
    /\ (Moved(p) /\ req'[p].op = "updateHabit" /\ ~Commits(p))
         => ReaderStore' = ReaderStore
    /\ \A h \in 1..Len(habits) :
         (Commits(p) /\ req[p].habitId = h) =>
           /\ HasScalars(req[p].body) =>
                habits'[h] = Spread(habits[h], RestOf(req[p].body))
           /\ TagIdsGiven(req[p].body) =>
                /\ SelectSeq(RowsIn(habitTags', h),
                             LAMBDA r : r.createdAt = req[p].at)
                     = RowsFor(h, req[p].body.tagIds, req[p].at)
                /\ \A i \in 1..Len(habitTags) :
                     habitTags[i].xmax = p =>
                       HabitTagRow(habitTags[i]) \notin
                         Range(RowsIn(habitTags', h))

\* C5: readers see an updateHabit transaction whole or not at all.  No step
\* of the transaction before its COMMIT (the UPDATE, the DELETE, the INSERT,
\* a rollback) changes what any reader reads from; the COMMIT brings the new
\* scalar fields, the rows of the tagIds array and the removal of the rows it
\* deleted together; and a finished request leaves nothing pending that could
\* surface later.
C5_ReadersSeeWholeTransactions ==
  [][C5_StepIsAtomic /\ C5_NothingPending']_vars

\* C5 witness: a transaction that updated a scalar field and replaced the
\* tag set is about to commit while every reader still gets the old habit.
C5_Witness ==
  \E p \in Procs :
    /\ pc[p] = "upd_commit"
    /\ HasScalars(req[p].body)
    /\ TagIdsGiven(req[p].body)
    /\ req[p].habitId = 1
    /\ rowLock[1] = p
    /\ \E i \in 1..Len(habitTags) : habitTags[i].xmin = p
    /\ \E i \in 1..Len(habitTags) : habitTags[i].xmax = p
    /\ habits[1].name = "exercise"
    /\ HabitTagIds(1) = <<1>>
    /\ \E q \in Procs :
         /\ req[q].op = "getHabitById"
         /\ req[q].at > req[p].at
         /\ resp[q].status = 200
         /\ resp[q].body[1].name = "exercise"
         /\ Len(resp[q].body[1].tags) = 1

\* C6: when two updateHabit requests with tagIds arrays l1 and l2 on the same
\* live habit of the actor have both committed, the habit's tags are exactly
\* l1 or exactly l2.
C6_TwoCommittedUpdatesOneWins ==
  \A p, q \in Procs :
    (/\ p # q
     /\ req[p].op = "updateHabit" /\ req[q].op = "updateHabit"
     /\ req[p].habitId = req[q].habitId
     /\ TagIdsGiven(req[p].body) /\ TagIdsGiven(req[q].body)
     /\ pc[p] = "upd_requery" \/ (pc[p] = "idle" /\ resp[p].status = 200)
     /\ pc[q] = "upd_requery" \/ (pc[q] = "idle" /\ resp[q].status = 200)
     /\ ScopedMatch(req[p].habitId, req[p].actor)
     /\ ScopedMatch(req[q].habitId, req[q].actor))
    => HabitTagIds(req[p].habitId) \in {req[p].body.tagIds, req[q].body.tagIds}

\* C7: createNewHabit is all or nothing.  It answers 200 exactly when both
\* inserts pass their foreign keys; then the store holds the new habit row
\* and one habit_tags row per supplied id, and otherwise neither table
\* changed.
C7_CreateAllOrNothing ==
  [][\A p \in Procs :
       (pc[p] = "idle" /\ Accepted(p, "createNewHabit")) =>
         LET r == req'[p]
             l == TagIdsOf(r.body)
         IN IF r.actor \in Users /\ TagsExist(l)
              THEN /\ resp'[p].status = 200
                   /\ Len(habits') = Len(habits) + 1
                   /\ SubSeq(habits', 1, Len(habits)) = habits
                   /\ habits'[r.habitId].userId = r.actor
                   /\ RowsIn(habitTags', r.habitId) = RowsFor(r.habitId, l, r.at)
                   /\ Len(habitTags') = Len(habitTags) + Len(l)
                   /\ SubSeq(habitTags', 1, Len(habitTags)) = habitTags
              ELSE /\ resp'[p].status # 200
                   /\ habits' = habits
                   /\ habitTags' = habitTags]_vars

\* C7 witness: a createNewHabit by a registered user whose tagIds reference
\* no tag was answered 500, and the store holds neither the habit it named
\* nor any habit_tags row of it.
C7_Witness ==
  \E p \in Procs :
    /\ pc[p] = "idle"
    /\ req[p].op = "createNewHabit"
    /\ req[p].actor \in Users
    /\ TagIdsGiven(req[p].body)
    /\ ~TagsExist(req[p].body.tagIds)
    /\ resp[p].status = 500
    /\ req[p].habitId = Len(habits) + 1
    /\ \A i \in 1..Len(habitTags) : habitTags[i].habitId # req[p].habitId

\* C8: right after a successful createNewHabit with tagIds l, reading the new
\* habit lists the tags of l in order with repeated ids listed once.
C8_CreateThenReadListsEachTagOnce ==
  [][\A p \in Procs, u \in Users, h \in 1..MaxHabits :
       (/\ pc[p] = "idle"
        /\ Accepted(p, "createNewHabit")
        /\ req'[p].actor = u
        /\ req'[p].habitId = h
        /\ resp'[p].status = 200)
       => ReadTagIds(h, u)' = Dedup(TagIdsOf(req'[p].body))]_vars

\* C9: no two committed habit_tags rows carry the same (habitId, tagId).
C9_NoDuplicateAssociation ==
  \A i, j \in 1..Len(VisibleTags) :
    (/\ i # j
     /\ VisibleTags[i].deletedAt = NullTs
     /\ VisibleTags[j].deletedAt = NullTs
     /\ VisibleTags[i].habitId = VisibleTags[j].habitId)
    => VisibleTags[i].tagId # VisibleTags[j].tagId

\* index of the first join row of habit h
FirstRow(h) ==
  CHOOSE k \in 1..Len(aggRows) :
    /\ aggRows[k].habits.id = h
    /\ \A j \in 1..(k - 1) : aggRows[j].habits.id # h

\* tag projections of the join rows of habit h that carry a tag, in row order
TagsOfRows(h) ==
  LET m == SelectSeq(aggRows,
                     LAMBDA r : r.habits.id = h /\ r.tags.id # NullId)
  IN [i \in 1..Len(m) |-> m[i].tags]

\* C10: once forEach has consumed every join row, habitsMap holds each habit
\* id of the rows exactly once, in order of first occurrence, and the tags of
\* a habit are the tag projections of the rows with that habit id and a
\* non-null tag id, in row order.
C10_AggregationFirstSeenOrder ==
  aggIdx = Len(aggRows) =>
    LET out == MapValues(aggMap)
    IN /\ {out[i].id : i \in 1..Len(out)}
            = {aggRows[k].habits.id : k \in 1..Len(aggRows)}
       /\ \A i, j \in 1..Len(out) :
            i < j => /\ out[i].id # out[j].id
                     /\ FirstRow(out[i].id) < FirstRow(out[j].id)
       /\ \A i \in 1..Len(out) : out[i].tags = TagsOfRows(out[i].id)
       /\ aggMap = Aggregate(aggRows)

\* C10 witness: three rows, the first habit seen again after the second, one
\* row without a tag: two entries, the first with one tag, the second none.
C10_Witness ==
  /\ aggIdx = Len(aggRows)
  /\ Len(aggRows) = 3
  /\ aggRows[1].habits.id = aggRows[3].habits.id
  /\ aggRows[2].habits.id # aggRows[1].habits.id
  /\ aggRows[1].tags.id = NullId
  /\ aggRows[2].tags.id = NullId
  /\ aggRows[3].tags.id # NullId
  /\ Len(aggMap) = 2
  /\ Len(aggMap[1].value.tags) = 1
  /\ aggMap[2].value.tags = <<>>

\* the habits a finished request of slot p returned to its actor
ReturnedHabits(p) ==
  IF resp[p].status # 200 \/ resp[p].body = Undefined THEN <<>>
  ELSE IF req[p].op \in {"getAllUserHabits", "getHabitsByTag"}
    THEN resp[p].body[1]
    ELSE IF req[p].op \in {"getHabitById", "updateHabit"}
      THEN resp[p].body
      ELSE <<>>

\* C11: getHabitById answers 404 exactly when the requested id is not a live
\* habit of the actor; a live habit of the actor is answered 200 with the
\* habit and one tag per habit_tags row of it, an empty list when it has none.
C11_NotFoundIffNoLiveOwnedHabit ==
  [][\A p \in Procs :
       (pc[p] = "idle" /\ Accepted(p, "getHabitById")) =>
         LET h == req'[p].habitId
             u == req'[p].actor
         IN /\ pc'[p] = "idle"
            /\ resp'[p].status = 404 <=> ~ScopedMatch(h, u)
            /\ ~ScopedMatch(h, u) => resp'[p].body = Undefined
            /\ ScopedMatch(h, u) =>
                 /\ resp'[p].status = 200
                 /\ resp'[p].body # Undefined
                 /\ resp'[p].body[1].id = h
                 /\ Len(resp'[p].body[1].tags) = Len(RowsOf(h))]_vars

\* C11 witness: a live habit of the actor without any habit_tags row was
\* answered 200 with an empty tags list.
C11_Witness ==
  \E p \in Procs :
    /\ pc[p] = "idle"
    /\ req[p].op = "getHabitById"
    /\ ScopedMatch(req[p].habitId, req[p].actor)
    /\ RowsOf(req[p].habitId) = <<>>
    /\ resp[p].status = 200
    /\ resp[p].body # Undefined
    /\ resp[p].body[1].tags = <<>>

\* C12: a deleteHabit by the owner on a live habit succeeds and sets
\* deletedAt; a deleteHabit by the owner on a habit already soft-deleted
\* reports a failure that is neither success (200) nor not-found (404).
C12_SecondDeleteReportsAlreadyDeleted ==
  [][\A p \in Procs :
       (/\ pc[p] = "idle"
        /\ Accepted(p, "deleteHabit")
        /\ req'[p].habitId \in 1..Len(habits)
        /\ habits[req'[p].habitId].userId = req'[p].actor)
       => IF habits[req'[p].habitId].deletedAt = NullTs
            THEN /\ resp'[p].status = 200
                 /\ habits'[req'[p].habitId].deletedAt # NullTs
            ELSE resp'[p].status \notin {200, 404}]_vars

\* C13: a deleteTag on a tag whose deletedAt is set is answered at once with
\* the already-deleted error (400, not the 404 of not-found nor the 200 of
\* success) and changes no tag row; and the UPDATE of a deleteTag by the
\* tag's creator sets deletedAt and answers 200.
C13_DeleteTagAlreadyDeleted ==
  [][\A p \in Procs :
       /\ (/\ pc[p] = "idle"
           /\ Accepted(p, "deleteTag")
           /\ req'[p].tagId \in 1..Len(tags)
           /\ tags[req'[p].tagId].deletedAt # NullTs)
          => /\ pc'[p] = "idle"
             /\ resp'[p].status = 400
             /\ resp'[p].message = "habit tag has already been deleted"
             /\ tags' = tags
       /\ (/\ pc[p] = "deltag_update"
           /\ pc'[p] = "idle"
           /\ tags[req[p].tagId].createdById = req[p].actor)
          => /\ resp'[p].status = 200
             /\ tags'[req[p].tagId].deletedAt # NullTs]_vars

\* C13 witness: the creator's deleteTag was answered already-deleted on a tag
\* an earlier deleteTag of the creator had soft-deleted.
C13_Witness ==
  \E p \in Procs :
    /\ pc[p] = "idle"
    /\ req[p].op = "deleteTag"
    /\ req[p].tagId \in 1..Len(tags)
    /\ tags[req[p].tagId].createdById = req[p].actor
    /\ tags[req[p].tagId].deletedAt # NullTs
    /\ tags[req[p].tagId].deletedAt < req[p].at
    /\ resp[p].status = 400
    /\ resp[p].message = "habit tag has already been deleted"

\* C14: an updateTag or deleteTag on a tag whose createdById is null is
\* rejected at once, whoever the actor is, with the system-tag error (400,
\* not the 404 of not-found), and no tag row changes.
C14_SystemTagRejectsUpdateAndDelete ==
  [][\A p \in Procs :
       (/\ pc[p] = "idle"
        /\ Accepted(p, "updateTag") \/ Accepted(p, "deleteTag")
        /\ req'[p].tagId \in 1..Len(tags)
        /\ tags[req'[p].tagId].createdById = Null)
       => /\ pc'[p] = "idle"
          /\ resp'[p].status = 400
          /\ resp'[p].message \in
               {"system default habit tags cannot be updated by users",
                "system default habit tags cannot be deleted by users"}
          /\ tags' = tags]_vars

\* C14 witness: a deleteTag on the system tag by a user was rejected with the
\* system-tag error, and the tag is as it was seeded.
C14_Witness ==
  \E p \in Procs :
    /\ pc[p] = "idle"
    /\ req[p].op = "deleteTag"
    /\ req[p].actor \in Users
    /\ req[p].tagId = 1
    /\ resp[p].status = 400
    /\ resp[p].message = "system default habit tags cannot be deleted by users"
    /\ tags[1] = SeedTags[1]

\* C15: no step of an updateTag or deleteTag by an actor on a tag created by
\* another user changes that tag row, and the request ends in a failure.
C15_ForeignTagUntouched ==
  [][\A p \in Procs :
       (/\ Moved(p)
        /\ req'[p].op \in {"updateTag", "deleteTag"}
        /\ req'[p].tagId \in 1..Len(tags)
        /\ tags[req'[p].tagId].createdById \notin {Null, req'[p].actor})
       => /\ tags'[req'[p].tagId] = tags[req'[p].tagId]
          /\ pc'[p] # "updtag_requery"
          /\ pc'[p] = "idle" => resp'[p].status \in {400, 404}]_vars

\* C15 witness: a deleteTag by another user went as far as its UPDATE, was
\* answered "unable to delete", and the creator's tag is still live.
C15_Witness ==
  \E p \in Procs :
    /\ pc[p] = "idle"
    /\ req[p].op = "deleteTag"
    /\ req[p].tagId = 2
    /\ req[p].actor = "u2"
    /\ tags[2].createdById = "u1"
    /\ tags[2].deletedAt = NullTs
    /\ resp[p].status = 400
    /\ resp[p].message = "unable to delete habit tag"

\* the tags a finished tag read of slot p returned to its actor
ReturnedTags(p) ==
  IF resp[p].status # 200 \/ resp[p].body = Undefined THEN <<>>
  ELSE IF req[p].op = "getUserTags" THEN resp[p].body[1]
  ELSE IF req[p].op = "getUserTagById" THEN resp[p].body
  ELSE <<>>

\* C16: every tag a tag read (getUserTags, getUserTagById) returns to an
\* actor was created by the actor or is a system tag, and is not
\* soft-deleted when it is read.
C16_TagReadsReturnOnlyVisibleTags ==
  [][\A p \in Procs :
       (/\ pc[p] = "idle"
        /\ Accepted(p, "getUserTags") \/ Accepted(p, "getUserTagById"))
       => \A i \in 1..Len(ReturnedTags(p)') :
            UserTagVisible(tags[ReturnedTags(p)'[i].id], req'[p].actor)]_vars

\* C17: every habit in the answer of getAllUserHabits, getHabitById,
\* getHabitsByTag or updateHabit belongs to the actor of the request and has
\* a null deletedAt.
C17_HabitReadsReturnOnlyOwnLiveHabits ==
  \A p \in Procs :
    (/\ pc[p] = "idle"
     /\ req[p].op \in {"getAllUserHabits", "getHabitById", "getHabitsByTag",
                       "updateHabit"})
    => \A i \in 1..Len(ReturnedHabits(p)) :
         /\ ReturnedHabits(p)[i].userId = req[p].actor
         /\ ReturnedHabits(p)[i].deletedAt = NullTs

\* C17 witness: getAllUserHabits returned to its actor one habit, its own,
\* while the store holds a live habit of the other user.
C17_Witness ==
  \E p \in Procs :
    /\ pc[p] = "idle"
    /\ req[p].op = "getAllUserHabits"
    /\ resp[p].status = 200
    /\ Len(ReturnedHabits(p)) = 1
    /\ \E h \in 1..Len(habits) :
         habits[h].userId # req[p].actor /\ habits[h].deletedAt = NullTs

\* C18: no step of an updateHabit, deleteHabit or completeHabit changes a
\* habits row of another user or adds an entry for such a habit; and no step
\* at all removes a habits row or changes its id or userId.
C18_ForeignHabitsUntouched ==
  [][/\ \A p \in Procs :
          (/\ Moved(p)
           /\ req'[p].op \in {"updateHabit", "deleteHabit", "completeHabit"})
          => /\ \A h \in 1..Len(habits) :
                  habits[h].userId # req'[p].actor => habits'[h] = habits[h]
             /\ \A i \in (Len(entries) + 1)..Len(entries') :
                  habits[entries'[i].habitId].userId = req'[p].actor
     /\ Len(habits') >= Len(habits)
     /\ \A h \in 1..Len(habits) :
          /\ habits'[h].id = habits[h].id
          /\ habits'[h].userId = habits[h].userId]_vars

\* C18 witness: u2 had an updateHabit with a scalar field, a deleteHabit or a
\* completeHabit on u1's habit 1 answered, habit 1 is as it was created and
\* has no entry.
C18_Witness ==
  \E p \in Procs :
    /\ pc[p] = "idle"
    /\ req[p].op \in {"updateHabit", "deleteHabit", "completeHabit"}
    /\ req[p].actor = "u2"
    /\ req[p].habitId = 1
    /\ habits[1] = OpsHabits[1]
    /\ entries = <<>>

\* C19: a deletedAt that is set stays set, on habits and on tags, and no
\* habit read (nor the answer of updateHabit) sent at a step contains a habit
\* that is soft-deleted at that step.
C19_SoftDeleteIsMonotonic ==
  [][/\ \A h \in 1..Len(habits) :
          habits[h].deletedAt # NullTs => habits'[h].deletedAt # NullTs
     /\ \A t \in 1..Len(tags) :
          tags[t].deletedAt # NullTs => tags'[t].deletedAt # NullTs
     /\ \A p \in Procs :
          (/\ Moved(p)
           /\ pc'[p] = "idle"
           /\ req'[p].op \in {"getAllUserHabits", "getHabitById",
                              "getHabitsByTag", "updateHabit"})
          => \A i \in 1..Len(ReturnedHabits(p)') :
               habits[ReturnedHabits(p)'[i].id].deletedAt = NullTs]_vars

\* C19 witness: the owner's getHabitById on a habit the owner soft-deleted
\* earlier was answered 404, and the habit still carries its deletedAt.
C19_Witness ==
  \E p \in Procs :
    /\ pc[p] = "idle"
    /\ req[p].op = "getHabitById"
    /\ req[p].habitId \in 1..Len(habits)
    /\ habits[req[p].habitId].userId = req[p].actor
    /\ habits[req[p].habitId].deletedAt # NullTs
    /\ habits[req[p].habitId].deletedAt < req[p].at
    /\ resp[p].status = 404

\* C20: completeHabit answers 404 when the id is not a live habit of the
\* actor and 400 (habit inactive) when it is one with isActive false; no step
\* of a completeHabit that ends in a failure adds an entries row.
C20_CompleteRefusals ==
  [][\A p \in Procs :
       /\ (pc[p] = "idle" /\ Accepted(p, "completeHabit")) =>
            LET h == req'[p].habitId
                u == req'[p].actor
            IN /\ entries' = entries
               /\ ~ScopedMatch(h, u) =>
                    /\ pc'[p] = "idle"
                    /\ resp'[p].status = 404
               /\ (ScopedMatch(h, u) /\ ~habits[h].isActive) =>
                    /\ pc'[p] = "idle"
                    /\ resp'[p].status = 400
                    /\ resp'[p].message = "Cannot complete an inactive habit"
               /\ (ScopedMatch(h, u) /\ habits[h].isActive) =>
                    pc'[p] = "cmp_insert"
       /\ (/\ Moved(p)
           /\ req'[p].op = "completeHabit"
           /\ pc'[p] = "idle"
           /\ resp'[p].status # 200)
          => entries' = entries]_vars

\* C20 witness: the owner's completeHabit on a live habit that an updateHabit
\* had set inactive was answered 400, and the entries table is empty.
C20_Witness ==
  \E p \in Procs :
    /\ pc[p] = "idle"
    /\ req[p].op = "completeHabit"
    /\ ScopedMatch(req[p].habitId, req[p].actor)
    /\ ~habits[req[p].habitId].isActive
    /\ resp[p].status = 400
    /\ entries = <<>>

\* C21: the step of completeHabit that answers 200 appends exactly one
\* entries row, of the requested habit and with an id no earlier row has,
\* and leaves the habits table and every earlier entries row as they were;
\* no other step changes the entries table, so n successful completions
\* yield n entries.
C21_CompletionAddsOneEntry ==
  [][/\ \A p \in Procs :
          (pc[p] = "cmp_insert" /\ pc'[p] = "idle") =>
            /\ resp'[p].status = 200
            /\ Len(entries') = Len(entries) + 1
            /\ SubSeq(entries', 1, Len(entries)) = entries
            /\ entries'[Len(entries')].habitId = req[p].habitId
            /\ \A i \in 1..Len(entries) :
                 entries[i].id # entries'[Len(entries')].id
            /\ habits' = habits
     /\ entries' # entries =>
          \E p \in Procs : pc[p] = "cmp_insert" /\ pc'[p] = "idle"]_vars

\* C21 witness: two completions of the same habit were answered 200 and the
\* entries table holds two distinct rows of that habit.
C21_Witness ==
  /\ Len(entries) = 2
  /\ entries[1].habitId = entries[2].habitId
  /\ entries[1].id # entries[2].id
  /\ \E p \in Procs :
       /\ pc[p] = "idle"
       /\ req[p].op = "completeHabit"
       /\ resp[p].status = 200

\* C22: whenever completeHabit inserts its entries row, the habit of the row
\* is live (deletedAt null) and active at that moment.
C22_EntryInsertedOnlyForLiveActiveHabit ==
  [][\A p \in Procs :
       (pc[p] = "cmp_insert" /\ pc'[p] = "idle") =>
         /\ habits[req[p].habitId].deletedAt = NullTs
         /\ habits[req[p].habitId].isActive]_vars

\* C23: whenever updateHabit answers 200, the habitDetails of the response
\* is present: it is the nested view of the requested habit that the re-query
\* after the commit read.
C23_SuccessCarriesHabitDetails ==
  [][\A p \in Procs :
       (pc[p] = "upd_requery" /\ pc'[p] = "idle" /\ resp'[p].status = 200) =>
         /\ resp'[p].body # Undefined
         /\ resp'[p].body = HabitDetails(req[p].habitId, req[p].actor)]_vars

\* C30: every tag in the tags list of a habit that a habit read returned to
\* actor X passes the filter of the tag reads for X: it was created by X or
\* is a system tag, and it is not soft-deleted.
C30_HabitReadsListOnlyVisibleTags ==
  \A p \in Procs :
    pc[p] = "idle" =>
      \A i \in 1..Len(ReturnedHabits(p)) :
        \A j \in 1..Len(ReturnedHabits(p)[i].tags) :
          UserTagVisible(tags[ReturnedHabits(p)[i].tags[j].id], req[p].actor)

\* C24: a deleteHabit leaves the entries table, the habit_tags table and
\* every habits row but the targeted one as they were, and changes at most
\* the deletedAt of the targeted row.
C24_DeleteHabitTouchesOnlyDeletedAt ==
  [][\A p \in Procs :
       (pc[p] = "idle" /\ Accepted(p, "deleteHabit")) =>
         /\ entries' = entries
         /\ habitTags' = habitTags
         /\ Len(habits') = Len(habits)
         /\ \A h \in 1..Len(habits) :
              IF h = req'[p].habitId
                THEN habits'[h] =
                       [habits[h] EXCEPT !.deletedAt = habits'[h].deletedAt]
                ELSE habits'[h] = habits[h]]_vars

\* C24 witness: u1's habit 1 was completed and then soft-deleted by a
\* deleteHabit; its entry and its habit_tags row are still in their tables.
C24_Witness ==
  \E p \in Procs :
    /\ pc[p] = "idle"
    /\ req[p].op = "deleteHabit"
    /\ req[p].habitId = 1
    /\ resp[p].message = "habit deleted successfully"
    /\ habits[1].deletedAt = req[p].at
    /\ habits[2] = OpsHabits[2]
    /\ Len(entries) = 1
    /\ entries[1].habitId = 1
    /\ habitTags = SeedHabitTags

\* C28: a deleteTag never succeeds on a tag whose deletedAt is already set:
\* its UPDATE writes deletedAt only while it is null, so that of two
\* deleteTag requests on the same tag at most one answers 200 and deletedAt
\* is written once.
C28_ConcurrentDeleteTagOneWins ==
  [][\A p \in Procs :
       (pc[p] = "deltag_update" /\ pc'[p] = "idle") =>
         /\ tags[req[p].tagId].deletedAt # NullTs =>
              /\ tags' = tags
              /\ resp'[p].status # 200
         /\ resp'[p].status = 200 =>
              \A q \in Procs \ {p} :
                (/\ pc[q] = "idle"
                 /\ req[q].op = "deleteTag"
                 /\ req[q].tagId = req[p].tagId)
                => resp[q].status # 200]_vars

\* C29: no step of an updateTag changes the name of a tag whose deletedAt is
\* set; an updateTag whose UPDATE runs on such a tag is refused.
C29_UpdateTagNeverTouchesDeletedTag ==
  [][\A p \in Procs :
       (pc[p] = "updtag_update" /\ pc'[p] # "updtag_update") =>
         \A t \in 1..Len(tags) :
           tags[t].deletedAt # NullTs =>
             /\ tags'[t] = tags[t]
             /\ t = req[p].tagId => resp'[p].status = 404]_vars

\* the messages of errorHandler that are its own
GenericMessages ==
  {"internal server error", "An unexpected database error occurred.",
   "A database-related error occurred."}

\* C26: of an error that errorHandler answered: with an explicit 4xx status
\* the answer keeps the status and the message of the error; with no status
\* and a connectivity code as the code of its cause the answer is 503; every
\* other error with no status (a validation error aside) is answered 500
\* with one of the handler's own messages, never the message of the error.
C26_ErrorHandlerMapping ==
  resp["p1"] # NoResp =>
    /\ (err.status \in 400..499 /\ ~err.zod) =>
         /\ resp["p1"].status = err.status
         /\ err.message # "" => resp["p1"].message = err.message
    /\ (/\ err.status = NoStatus
        /\ err.cause.present
        /\ err.cause.typeofCode = "string"
        /\ err.cause.code \in NetworkCodes) =>
         resp["p1"].status = 503
    /\ (/\ err.status = NoStatus
        /\ ~err.zod
        /\ ~(/\ err.cause.present
             /\ err.cause.typeofCode = "string"
             /\ err.cause.code \in NetworkCodes)) =>
         /\ resp["p1"].status = 500
         /\ resp["p1"].message \in GenericMessages

StoreTables == <<habits, habitTags, tags, entries, users>>

\* C27: on the protected routes a controller starts only on a request the
\* router received; a request reaches the router only from rateLimiting, when
\* the limiter counted it within its tokens, and rateLimiting only from
\* authenticate, with the payload of its token as the actor; a request that
\* authenticate or rateLimiting ends (401 without a token, 429 from the
\* limiter) starts no controller and leaves every table as it was; and a
\* table changes only while some request is past the router.
C27_ControllerOnlyAfterMiddleware ==
  [][/\ \A p \in Procs :
          /\ (clock' = clock + 1 /\ req'[p].at = clock') => pc[p] = "router"
          /\ (pc'[p] = "router" /\ pc[p] # "router") =>
               /\ pc[p] = "rateLimiting"
               /\ window'[req[p].actor] <= LimiterTokens
          /\ (pc'[p] = "rateLimiting" /\ pc[p] # "rateLimiting") =>
               /\ pc[p] = "authenticate"
               /\ headers[p] \in Users
               /\ req'[p].actor = headers[p]
          /\ (pc[p] \in {"authenticate", "rateLimiting"} /\ pc'[p] = "idle") =>
               /\ StoreTables' = StoreTables
               /\ clock' = clock
               /\ (pc[p] = "authenticate" /\ headers[p] = NoToken) =>
                    resp'[p].status = 401
               /\ pc[p] = "rateLimiting" => resp'[p].status = 429
     /\ StoreTables' # StoreTables =>
          \E p \in Procs :
            pc[p] \notin {"idle", "authenticate", "rateLimiting"}]_vars

\* C27 witness: u1's deleteHabit took the last token of the window and
\* soft-deleted habit 1; u1's next request to /api/habits was answered 429
\* by the limiter and habit 2 is as it was.
C27_Witness ==
  \E p \in Procs :
    /\ pc[p] = "idle"
    /\ req[p].op = "/api/habits"
    /\ req[p].actor = "u1"
    /\ resp[p].status = 429
    /\ window["u1"] = LimiterTokens + 1
    /\ habits[1].deletedAt # NullTs
    /\ habits[2] = OpsHabits[2]

====
